---------------------------- MODULE Spec2Model ----------------------------
(***************************************************************************)
(* Model of scripts/generate_report.py: one run of the report pipeline.    *)
(*                                                                         *)
(*   load_historical_data -> df.empty check -> calculate_metrics ->        *)
(*   create_backlink_trend_chart -> create_new_vs_lost_chart ->            *)
(*   generate_html_report -> save_report                                   *)
(*                                                                         *)
(* The state is the part of the file system the script reads and writes    *)
(* (HISTORY_FILE, the directory tree, REPORT_FILENAME), the configuration  *)
(* names imported from config.settings, the locals of the __main__ block   *)
(* and the position of the run.                                            *)
(*                                                                         *)
(* Numbers.  The count columns are int64 columns of the CSV, modelled as   *)
(* integers; int(x) of such a value is the value.  percent_change is a     *)
(* float with two decimals; it is modelled by the integer number of        *)
(* hundredths (20.0 is 2000, -33.33 is -3333).  domain_authority is never  *)
(* computed with, only carried, and is modelled by its text.               *)
(* An optional value (None / not yet assigned) is <<>>, a value v is <<v>>.*)
(***************************************************************************)
EXTENDS Integers, Sequences, FiniteSets, TLC

VARIABLES
    history,         \* HISTORY_FILE on disk: [exists, parses, rows]
    config,          \* config.settings: [REPORTS_DIR, REPORT_FILENAME, ...]
    dirs,            \* the directories that exist (paths, as component sequences)
    report_file,     \* what is stored at REPORT_FILENAME: Absent, OldContent or a document
    pc,              \* position of the run in the __main__ block
    df,              \* <<>> or <<DataFrame>>
    metrics,         \* <<>> or <<dict returned by calculate_metrics>>
    trend_chart,     \* <<>> or <<markup of the trend chart>>
    new_lost_chart,  \* <<>> or <<markup of the new-vs-lost chart>>
    html_content,    \* <<>> or <<rendered document>>
    stdout,          \* the lines printed so far
    raised,          \* <<>> or <<the exception that ended the run>>
    exit_code        \* <<>> while running, <<status>> once the process has ended

vars == <<history, config, dirs, report_file, pc, df, metrics, trend_chart,
          new_lost_chart, html_content, stdout, raised, exit_code>>

---------------------------------------------------------------------------
(* Bounds of the enumerated inputs *)

\* longest series whose records range over every total and profile
MaxLen == 2
\* longest series used to exercise the trailing window of the bar chart
MaxLongLen == 7
\* total_backlinks ranges over -MaxTotal..MaxTotal (and the spec's example values)
MaxTotal == 2

\* df.tail(6)
RECENT_MONTHS == 6

ExampleTotals == {100, 120}

Totals == ((0 - MaxTotal)..MaxTotal) \cup ExampleTotals

\* The remaining columns of a row: (referring_domains, new_backlinks,
\* lost_backlinks, domain_authority).  The two rows of the spec's example.
Profiles ==
    { [referring_domains |-> 10, new_backlinks |-> 5,  lost_backlinks |-> 2, domain_authority |-> "20"],
      [referring_domains |-> 12, new_backlinks |-> 25, lost_backlinks |-> 5, domain_authority |-> "22"] }

Columns == {"date", "total_backlinks", "referring_domains", "new_backlinks",
            "lost_backlinks", "domain_authority"}

\* One CSV row; date is the number of the reporting period.
Row(d, t, p) ==
    [date |-> d, total_backlinks |-> t,
     referring_domains |-> p.referring_domains,
     new_backlinks |-> p.new_backlinks,
     lost_backlinks |-> p.lost_backlinks,
     domain_authority |-> p.domain_authority]

\* All date-ordered series of length n with totals from T.
SeriesOfLen(n, T) ==
    { [i \in 1..n |-> Row(i, f[i][1], f[i][2])] : f \in [1..n -> T \X Profiles] }

RichSeries == UNION { SeriesOfLen(n, Totals) : n \in 0..MaxLen }

\* one row more, the totals over {0, 1}
MidSeries == SeriesOfLen(MaxLen + 1, {0, 1})

\* longer still, the totals fixed
LongSeries == UNION { SeriesOfLen(n, {1}) : n \in (MaxLen + 2)..MaxLongLen }

FewSeries == UNION { SeriesOfLen(n, {1, 2}) : n \in 0..2 }

---------------------------------------------------------------------------
(* The file system *)

\* REPORT_FILENAME: no such file, the report an earlier run left, or the
\* document this run wrote.
Absent == [exists |-> FALSE, document |-> << >>]
OldContent == [exists |-> TRUE, document |-> << >>]
Written(html) == [exists |-> TRUE, document |-> <<html>>]

\* dirname of a path
DirName(p) == SubSeq(p, 1, Len(p) - 1)

\* a path and all its ancestors
Prefixes(p) == { SubSeq(p, 1, k) : k \in 0..Len(p) }

Cwd == << >>

DirPaths == { Cwd, <<"reports">>, <<"reports", "monthly">>, <<"out">> }

\* os.makedirs(path, exist_ok=True): the directory and every missing ancestor
makedirs(existing, path) == existing \cup Prefixes(path)

\* The directory trees the run may start in.
InitialDirs == { D \in SUBSET DirPaths : Cwd \in D /\ \A p \in D : Prefixes(p) \subseteq D }

\* The configuration names the script imports (from config.settings import *).
Settings(reports_dir, report_filename) ==
    [REPORTS_DIR |-> reports_dir, REPORT_FILENAME |-> report_filename,
     REPORT_TITLE |-> "Backlink Report", TARGET_DOMAIN |-> "example.com",
     CURRENT_DATE |-> "2024-02-01"]

Configs ==
    { Settings(rd, d \o <<"report.html">>) :
        rd \in { <<"reports">>, <<"reports", "monthly">> }, d \in DirPaths }

StdConfig == Settings(<<"reports">>, <<"reports", "report.html">>)

\* HISTORY_FILE: missing, unparseable, or a CSV with the given rows.
MissingFile == [exists |-> FALSE, parses |-> FALSE, rows |-> << >>]
MalformedFile == [exists |-> TRUE, parses |-> FALSE, rows |-> << >>]
CsvFile(rows) == [exists |-> TRUE, parses |-> TRUE, rows |-> rows]

HistoryFiles(S) == { MissingFile, MalformedFile } \cup { CsvFile(r) : r \in S }

---------------------------------------------------------------------------
(* calculate_metrics *)

\* Mutant of Change: the operands the wrong way round.
Change_reversed(current, previous) ==
    previous.total_backlinks - current.total_backlinks

\* change = current['total_backlinks'] - previous['total_backlinks']
Change(current, previous) == current.total_backlinks - previous.total_backlinks

\* Mutant of Percent: a zero baseline replaced by 1 (change / max(previous, 1))
\* instead of the guard.
Percent_max1(change, previous_total) ==
    IF previous_total > 0
    THEN [num |-> change * 100, den |-> previous_total]
    ELSE [num |-> change * 100, den |-> 1]

\* percent = (change / previous * 100) if previous > 0 else 0, as the exact
\* quotient num/den (den > 0).
Percent(change, previous_total) ==
    IF previous_total > 0
    THEN [num |-> change * 100, den |-> previous_total]
    ELSE [num |-> 0, den |-> 1]

\* Mutant of round2: the digits after the second decimal cut off
\* (int(percent * 100) / 100) instead of rounded.
round2_truncated(q) ==
    LET n == q.num * 100
    IN  IF n >= 0 THEN n \div q.den ELSE 0 - ((0 - n) \div q.den)

\* round(percent, 2), in hundredths: the integer nearest to 100 * num / den,
\* a tie going to the even one.  \div rounds towards minus infinity.
round2(q) ==
    LET n == q.num * 100
        lo == n \div q.den
        r == n - lo * q.den
    IN  IF 2 * r < q.den THEN lo
        ELSE IF 2 * r > q.den THEN lo + 1
        ELSE IF lo % 2 = 0 THEN lo ELSE lo + 1

\* Mutant of ShortMetrics: the new and lost columns exchanged.
ShortMetrics_swapped(rows) ==
    LET n == Len(rows)
    IN  [current_backlinks |-> IF n > 0 THEN rows[n].total_backlinks ELSE 0,
         current_domains |-> IF n > 0 THEN rows[n].referring_domains ELSE 0,
         monthly_change |-> 0,
         percent_change |-> 0,
         new_this_month |-> IF n > 0 THEN rows[n].lost_backlinks ELSE 0,
         lost_this_month |-> IF n > 0 THEN rows[n].new_backlinks ELSE 0,
         domain_authority |-> IF n > 0 THEN rows[n].domain_authority ELSE "N/A"]

\* The branch len(df) < 2.
ShortMetrics(rows) ==
    LET n == Len(rows)
    IN  [current_backlinks |-> IF n > 0 THEN rows[n].total_backlinks ELSE 0,
         current_domains |-> IF n > 0 THEN rows[n].referring_domains ELSE 0,
         monthly_change |-> 0,
         percent_change |-> 0,
         new_this_month |-> IF n > 0 THEN rows[n].new_backlinks ELSE 0,
         lost_this_month |-> IF n > 0 THEN rows[n].lost_backlinks ELSE 0,
         domain_authority |-> IF n > 0 THEN rows[n].domain_authority ELSE "N/A"]

\* The dict built from current and previous.
MetricsOf(current, previous) ==
    LET change == Change(current, previous)
        percent == Percent(change, previous.total_backlinks)
    IN  [current_backlinks |-> current.total_backlinks,
         current_domains |-> current.referring_domains,
         monthly_change |-> change,
         percent_change |-> round2(percent),
         new_this_month |-> current.new_backlinks,
         lost_this_month |-> current.lost_backlinks,
         domain_authority |-> current.domain_authority]

\* Mutant of RecentMetrics: the baseline is the first row (df.iloc[0]).
RecentMetrics_first(rows) == MetricsOf(rows[Len(rows)], rows[1])

\* current = df.iloc[-1]; previous = df.iloc[-2]
RecentMetrics(rows) == MetricsOf(rows[Len(rows)], rows[Len(rows) - 1])

calculate_metrics(d) ==
    IF Len(d.rows) < 2 THEN ShortMetrics(d.rows) ELSE RecentMetrics(d.rows)

---------------------------------------------------------------------------
(* the charts and the document *)

\* df[col] as a list
Column(rows, col) == [i \in 1..Len(rows) |-> rows[i][col]]

\* Mutant of tail: the leading rows (df.head(n)).
tail_head(rows, n) ==
    IF Len(rows) <= n THEN rows ELSE SubSeq(rows, 1, n)

\* df.tail(n)
tail(rows, n) ==
    IF Len(rows) <= n THEN rows ELSE SubSeq(rows, Len(rows) - n + 1, Len(rows))

\* The two Scatter traces over the whole frame.
create_backlink_trend_chart(d) ==
    [title |-> "Backlink Growth Over Time",
     x |-> Column(d.rows, "date"),
     total_backlinks |-> Column(d.rows, "total_backlinks"),
     referring_domains |-> Column(d.rows, "referring_domains")]

\* The two Bar traces over df.tail(6).
create_new_vs_lost_chart(d) ==
    LET df_recent == tail(d.rows, RECENT_MONTHS)
    IN  [title |-> "New vs Lost Backlinks (Last 6 Months)",
         x |-> Column(df_recent, "date"),
         new_backlinks |-> Column(df_recent, "new_backlinks"),
         lost_backlinks |-> Column(df_recent, "lost_backlinks")]

\* {% if metrics.monthly_change >= 0 %}positive{% else %}negative{% endif %}
ChangeClass(m) == IF m.monthly_change >= 0 THEN "positive" ELSE "negative"

\* Mutant of ChangeGlyph: a strict comparison.
ChangeGlyph_strict(m) ==
    IF m.monthly_change > 0
    THEN "BLACK UP-POINTING TRIANGLE"
    ELSE "BLACK DOWN-POINTING TRIANGLE"

\* {% if metrics.monthly_change >= 0 %} up triangle {% else %} down triangle {% endif %}
ChangeGlyph(m) ==
    IF m.monthly_change >= 0
    THEN "BLACK UP-POINTING TRIANGLE"
    ELSE "BLACK DOWN-POINTING TRIANGLE"

\* What the template renders: the slots of the document.
generate_html_report(d, m, trend, new_lost, cfg) ==
    [report_title |-> cfg.REPORT_TITLE,
     domain |-> cfg.TARGET_DOMAIN,
     date |-> cfg.CURRENT_DATE,
     current_backlinks |-> m.current_backlinks,
     change_class |-> ChangeClass(m),
     change_glyph |-> ChangeGlyph(m),
     monthly_change |-> m.monthly_change,
     percent_change |-> m.percent_change,
     current_domains |-> m.current_domains,
     new_this_month |-> m.new_this_month,
     lost_this_month |-> m.lost_this_month,
     trend_chart |-> trend,
     new_lost_chart |-> new_lost]

---------------------------------------------------------------------------
(* the run *)

\* pd.DataFrame()
EmptyFrame == [columns |-> {}, rows |-> << >>]

\* Mutant of DataFrameEmpty: only a frame without columns counts as empty.
DataFrameEmpty_no_columns(d) == d.columns = {}

\* DataFrame.empty: some axis has length 0
DataFrameEmpty(d) == d.columns = {} \/ Len(d.rows) = 0

\* An uncaught exception ends the process with a traceback and status 1.
Uncaught(exc) ==
    /\ raised' = <<exc>>
    /\ exit_code' = <<1>>
    /\ pc' = "exited"

InitWith(h, cfg, D, rf) ==
    /\ history = h
    /\ config = cfg
    /\ dirs = D
    /\ report_file = rf
    /\ pc = "load_historical_data"
    /\ df = << >>
    /\ metrics = << >>
    /\ trend_chart = << >>
    /\ new_lost_chart = << >>
    /\ html_content = << >>
    /\ stdout = <<"Generating report...">>
    /\ raised = << >>
    /\ exit_code = << >>

\* A file can only be there if its directory is.
InitialReportFiles(cfg, D) ==
    IF DirName(cfg.REPORT_FILENAME) \in D THEN {Absent, OldContent} ELSE {Absent}

Init ==
    \/ \E h \in HistoryFiles(RichSeries \cup MidSeries \cup LongSeries) :
          InitWith(h, StdConfig, {Cwd}, Absent)
    \/ \E h \in HistoryFiles(FewSeries), cfg \in Configs, D \in InitialDirs :
          \E rf \in InitialReportFiles(cfg, D) : InitWith(h, cfg, D, rf)

\* df = load_historical_data()
LoadHistoricalData ==
    /\ pc = "load_historical_data"
    /\ IF ~history.exists
       THEN /\ stdout' = Append(stdout, "No historical data found")
            /\ df' = <<EmptyFrame>>
            /\ pc' = "df.empty"
            /\ UNCHANGED <<raised, exit_code>>
       ELSE IF ~history.parses
       THEN /\ Uncaught("ParserError")
            /\ UNCHANGED <<stdout, df>>
       ELSE /\ df' = <<[columns |-> Columns, rows |-> history.rows]>>
            /\ pc' = "df.empty"
            /\ UNCHANGED <<stdout, raised, exit_code>>
    /\ UNCHANGED <<history, config, dirs, report_file, metrics, trend_chart,
                   new_lost_chart, html_content>>

\* if df.empty: print(...); exit(1)
CheckEmpty ==
    /\ pc = "df.empty"
    /\ IF DataFrameEmpty(df[1])
       THEN /\ stdout' = Append(stdout, "No data available to generate report")
            /\ exit_code' = <<1>>
            /\ pc' = "exited"
       ELSE /\ pc' = "calculate_metrics"
            /\ UNCHANGED <<stdout, exit_code>>
    /\ UNCHANGED <<history, config, dirs, report_file, df, metrics, trend_chart,
                   new_lost_chart, html_content, raised>>

\* Mutant of CalculateMetrics: the report directory is created up front.
CalculateMetrics_makedirs ==
    /\ pc = "calculate_metrics"
    /\ metrics' = <<calculate_metrics(df[1])>>
    /\ dirs' = makedirs(dirs, config.REPORTS_DIR)
    /\ pc' = "create_backlink_trend_chart"
    /\ UNCHANGED <<history, config, report_file, df, trend_chart,
                   new_lost_chart, html_content, stdout, raised, exit_code>>

\* metrics = calculate_metrics(df)
CalculateMetrics ==
    /\ pc = "calculate_metrics"
    /\ metrics' = <<calculate_metrics(df[1])>>
    /\ pc' = "create_backlink_trend_chart"
    /\ UNCHANGED <<history, config, dirs, report_file, df, trend_chart,
                   new_lost_chart, html_content, stdout, raised, exit_code>>

\* trend_chart = create_backlink_trend_chart(df)
CreateBacklinkTrendChart ==
    /\ pc = "create_backlink_trend_chart"
    /\ trend_chart' = <<create_backlink_trend_chart(df[1])>>
    /\ pc' = "create_new_vs_lost_chart"
    /\ UNCHANGED <<history, config, dirs, report_file, df, metrics,
                   new_lost_chart, html_content, stdout, raised, exit_code>>

\* new_lost_chart = create_new_vs_lost_chart(df)
CreateNewVsLostChart ==
    /\ pc = "create_new_vs_lost_chart"
    /\ new_lost_chart' = <<create_new_vs_lost_chart(df[1])>>
    /\ pc' = "generate_html_report"
    /\ UNCHANGED <<history, config, dirs, report_file, df, metrics,
                   trend_chart, html_content, stdout, raised, exit_code>>

\* html_content = generate_html_report(df, metrics, trend_chart, new_lost_chart)
GenerateHtmlReport ==
    /\ pc = "generate_html_report"
    /\ html_content' = <<generate_html_report(df[1], metrics[1], trend_chart[1],
                                              new_lost_chart[1], config)>>
    /\ pc' = "save_report"
    /\ UNCHANGED <<history, config, dirs, report_file, df, metrics,
                   trend_chart, new_lost_chart, stdout, raised, exit_code>>

\* save_report, first statement: os.makedirs(REPORTS_DIR, exist_ok=True)
SaveReportMakedirs ==
    /\ pc = "save_report"
    /\ dirs' = makedirs(dirs, config.REPORTS_DIR)
    /\ pc' = "save_report.open"
    /\ UNCHANGED <<history, config, report_file, df, metrics, trend_chart,
                   new_lost_chart, html_content, stdout, raised, exit_code>>

\* save_report, the rest: open(REPORT_FILENAME, 'w') and write, the two
\* prints, and the end of the script.  open fails when the file's directory
\* does not exist.
SaveReportWrite ==
    /\ pc = "save_report.open"
    /\ IF DirName(config.REPORT_FILENAME) \in dirs
       THEN /\ report_file' = Written(html_content[1])
            /\ stdout' = stdout \o <<"Report saved to REPORT_FILENAME",
                                     "Report generated successfully: REPORT_FILENAME">>
            /\ exit_code' = <<0>>
            /\ pc' = "exited"
            /\ UNCHANGED raised
       ELSE /\ Uncaught("FileNotFoundError")
            /\ UNCHANGED <<report_file, stdout>>
    /\ UNCHANGED <<history, config, dirs, df, metrics, trend_chart,
                   new_lost_chart, html_content>>

\* The calls between the empty check and save_report run library code on the
\* frame; nothing in __main__ catches what they raise.
RaisingSteps == {"calculate_metrics", "create_backlink_trend_chart",
                 "create_new_vs_lost_chart", "generate_html_report"}

StepRaises ==
    /\ pc \in RaisingSteps
    /\ Uncaught("Exception")
    /\ UNCHANGED <<history, config, dirs, report_file, df, metrics, trend_chart,
                   new_lost_chart, html_content, stdout>>

Next ==
    \/ LoadHistoricalData
    \/ CheckEmpty
    \/ CalculateMetrics
    \/ CreateBacklinkTrendChart
    \/ CreateNewVsLostChart
    \/ GenerateHtmlReport
    \/ SaveReportMakedirs
    \/ SaveReportWrite
    \/ StepRaises

Spec == Init /\ [][Next]_vars

---------------------------------------------------------------------------
(* Properties *)

\* the rows of the loaded frame, its last and second-to-last row
Loaded == df # << >>
Rows == df[1].rows
Current == Rows[Len(Rows)]
Previous == Rows[Len(Rows) - 1]

\* calculate_metrics has returned
HasMetrics == Loaded /\ metrics # << >>

Abs(x) == IF x < 0 THEN 0 - x ELSE x
Min(a, b) == IF a <= b THEN a ELSE b

\* p hundredths is change / base * 100 rounded to two decimals: no number
\* of hundredths is nearer to the exact quotient (base # 0).
IsPercentRounded(p, change, base) ==
    2 * Abs(p * base - change * 10000) <= Abs(base)

\* the run has not written REPORT_FILENAME
NotWritten == report_file \in {Absent, OldContent}

\* C1: for a series of 2 or more records monthly_change is exactly the last
\* total minus the second-to-last total, negative when the total fell.
C1_MonthlyChangeIsDifference ==
    (HasMetrics /\ Len(Rows) >= 2) =>
        metrics[1].monthly_change =
            Current.total_backlinks - Previous.total_backlinks

\* metrics of a series whose total fell from 120 to 100
C1_Witness ==
    /\ HasMetrics /\ Len(Rows) >= 2
    /\ Previous.total_backlinks = 120 /\ Current.total_backlinks = 100
    /\ metrics[1].monthly_change = 0 - 20

\* C2: when the second-to-last total is 0, percent_change is 0 whatever the
\* last total is, and the division is never made with a zero divisor.
C2_ZeroBaselineGivesZeroPercent ==
    (HasMetrics /\ Len(Rows) >= 2 /\ Previous.total_backlinks = 0) =>
        /\ metrics[1].percent_change = 0
        /\ Percent(Change(Current, Previous), Previous.total_backlinks).den # 0

\* metrics of a series that went from 0 to 100 backlinks
C2_Witness ==
    /\ HasMetrics /\ Len(Rows) >= 2
    /\ Previous.total_backlinks = 0 /\ Current.total_backlinks = 100
    /\ metrics[1].percent_change = 0

\* C3 as stated: whenever the second-to-last total is not 0, percent_change
\* is change / previous * 100 rounded to two decimals, and it is 0 only when
\* the previous total is 0 or the quotient rounds to 0.
C3_PercentWheneverBaselineNonZero ==
    (HasMetrics /\ Len(Rows) >= 2) =>
        /\ Previous.total_backlinks # 0 =>
              IsPercentRounded(metrics[1].percent_change,
                               metrics[1].monthly_change, Previous.total_backlinks)
        /\ metrics[1].percent_change = 0 =>
              \/ Previous.total_backlinks = 0
              \/ IsPercentRounded(0, metrics[1].monthly_change, Previous.total_backlinks)

\* C3 amended: whenever the second-to-last total is greater than 0,
\* percent_change is change / previous * 100 rounded to two decimals (100
\* then 120 gives 20.0); whenever it is 0 or less, percent_change is 0; so
\* the value is 0 only when the previous total is not positive or the
\* quotient rounds to 0.
C3_PercentWheneverBaselinePositive ==
    (HasMetrics /\ Len(Rows) >= 2) =>
        /\ Previous.total_backlinks > 0 =>
              IsPercentRounded(metrics[1].percent_change,
                               metrics[1].monthly_change, Previous.total_backlinks)
        /\ Previous.total_backlinks <= 0 => metrics[1].percent_change = 0
        /\ metrics[1].percent_change = 0 =>
              \/ Previous.total_backlinks <= 0
              \/ IsPercentRounded(0, metrics[1].monthly_change, Previous.total_backlinks)
        /\ (Previous.total_backlinks = 100 /\ Current.total_backlinks = 120) =>
              metrics[1].percent_change = 2000

\* the spec's example: totals 100 then 120 give 20.0
C3_Witness ==
    /\ HasMetrics /\ Len(Rows) >= 2
    /\ Previous.total_backlinks = 100 /\ Current.total_backlinks = 120
    /\ metrics[1].percent_change = 2000

\* C4: a missing input file loads as an empty frame without failing, and a
\* run whose loaded series has no rows only prints the condition and exits
\* with status 1: metrics, charts and document are never produced and
\* nothing is written to REPORT_FILENAME.
C4_EmptySeriesExitsBeforeReport ==
    /\ (~history.exists /\ pc # "load_historical_data") =>
          (df = <<EmptyFrame>> /\ raised = << >>)
    /\ (Loaded /\ Len(Rows) = 0) =>
          /\ pc \in {"df.empty", "exited"}
          /\ metrics = << >> /\ trend_chart = << >>
          /\ new_lost_chart = << >> /\ html_content = << >>
          /\ NotWritten
          /\ raised = << >>
          /\ pc = "exited" =>
                /\ exit_code = <<1>>
                /\ stdout[Len(stdout)] = "No data available to generate report"

\* a run on a CSV with a header and no rows has exited with status 1, the
\* report of an earlier run still in place
C4_Witness ==
    /\ history.exists /\ Loaded /\ Len(Rows) = 0
    /\ pc = "exited" /\ exit_code = <<1>>
    /\ report_file = OldContent

\* C5: for a series of exactly one record monthly_change and percent_change
\* are 0 and the five current values are that record's columns.
C5_SingleRecordMetrics ==
    (HasMetrics /\ Len(Rows) = 1) =>
        /\ metrics[1].monthly_change = 0
        /\ metrics[1].percent_change = 0
        /\ metrics[1].current_backlinks = Rows[1].total_backlinks
        /\ metrics[1].current_domains = Rows[1].referring_domains
        /\ metrics[1].new_this_month = Rows[1].new_backlinks
        /\ metrics[1].lost_this_month = Rows[1].lost_backlinks
        /\ metrics[1].domain_authority = Rows[1].domain_authority

\* metrics of the one-record series (120, 12, 25, 5, 22)
C5_Witness ==
    /\ HasMetrics /\ Len(Rows) = 1
    /\ Rows[1].total_backlinks = 120
    /\ metrics[1].current_backlinks = 120 /\ metrics[1].new_this_month = 25

\* C6: once save_report has made its directory, the directory of
\* REPORT_FILENAME exists, and the write never fails for want of it.
C6_ReportDirectoryExistsBeforeOpen ==
    /\ pc = "save_report.open" => DirName(config.REPORT_FILENAME) \in dirs
    /\ raised # <<"FileNotFoundError">>

\* C7: the indicator of the total-backlinks card is the up glyph with class
\* positive exactly when monthly_change >= 0 (0 included) and the down glyph
\* with class negative otherwise.
C7_IndicatorFollowsSign ==
    html_content # << >> =>
        IF metrics[1].monthly_change >= 0
        THEN /\ html_content[1].change_class = "positive"
             /\ html_content[1].change_glyph = "BLACK UP-POINTING TRIANGLE"
        ELSE /\ html_content[1].change_class = "negative"
             /\ html_content[1].change_glyph = "BLACK DOWN-POINTING TRIANGLE"

\* a document for an unchanged total (two records, monthly_change 0)
C7_Witness ==
    /\ html_content # << >> /\ Len(Rows) >= 2
    /\ metrics[1].monthly_change = 0
    /\ html_content[1].change_class = "positive"

\* C8: the new-vs-lost chart holds exactly the last min(6, n) rows of the
\* n rows, in their order.
C8_ChartShowsTrailingWindow ==
    new_lost_chart # << >> =>
        LET n == Len(Rows)
            k == Min(RECENT_MONTHS, n)
            c == new_lost_chart[1]
        IN  /\ Len(c.x) = k /\ Len(c.new_backlinks) = k /\ Len(c.lost_backlinks) = k
            /\ \A i \in 1..k :
                  /\ c.x[i] = Rows[n - k + i].date
                  /\ c.new_backlinks[i] = Rows[n - k + i].new_backlinks
                  /\ c.lost_backlinks[i] = Rows[n - k + i].lost_backlinks

\* a chart of a series of more than six rows
C8_Witness ==
    /\ new_lost_chart # << >>
    /\ Len(Rows) > RECENT_MONTHS
    /\ Len(new_lost_chart[1].x) = RECENT_MONTHS

\* rows that may precede the last two: up to two rows of an earlier period
EarlierRows ==
    UNION { { [i \in 1..n |-> Row(0, f[i][1], f[i][2])] :
                f \in [1..n -> {0, 100} \X Profiles] } : n \in 0..2 }

\* C9: every series that ends with the same two records as the loaded one
\* has the same metrics, whatever and however many rows come before them.
C9_OnlyLastTwoRecordsMatter ==
    (HasMetrics /\ Len(Rows) >= 2) =>
        \A e \in EarlierRows :
            calculate_metrics([columns |-> Columns,
                               rows |-> e \o <<Previous, Current>>]) = metrics[1]

\* metrics of a three-record series whose first total differs from its second
C9_Witness ==
    /\ HasMetrics /\ Len(Rows) = 3
    /\ Rows[1].total_backlinks # Rows[2].total_backlinks
    /\ metrics[1].monthly_change = Rows[3].total_backlinks - Rows[2].total_backlinks

\* C10: a step changes the directories or REPORT_FILENAME only inside
\* save_report, hence after metrics, both charts and the document exist;
\* every other step, the exits and the failures included, leaves them alone.
C10_OnlySaveReportTouchesOutput ==
    [][ (dirs' # dirs \/ report_file' # report_file) =>
            /\ pc \in {"save_report", "save_report.open"}
            /\ metrics # << >> /\ trend_chart # << >>
            /\ new_lost_chart # << >> /\ html_content # << >> ]_vars

\* a run that failed while composing, the earlier report still in place
C10_Witness ==
    /\ pc = "exited" /\ raised = <<"Exception">>
    /\ new_lost_chart # << >> /\ html_content = << >>
    /\ report_file = OldContent

=============================================================================
